---- MODULE Spec2Model ----
(***************************************************************************)
(* State-machine model of lib/webhdfs.js: the two-phase redirect protocol  *)
(* of createWriteStream (upload session) and createReadStream (download    *)
(* session), with the status classifiers and _parseError they rely on.     *)
(*                                                                         *)
(* stat and exists with the metadata dispatcher _sendRequest are modelled   *)
(* as a third kind of session.                                             *)
(* A fourth kind follows the calls of the endpoint builder on one client.   *)
(* One behaviour follows one session, chosen in Init.  The HTTP transport  *)
(* (the `request` package) is the environment: it delivers, per request,   *)
(* either a transport failure or a response; to a request created with a   *)
(* callback it delivers exactly one callback invocation, to a request      *)
(* created without one the events 'response', 'data'* and 'complete'.      *)
(* Every action is one handler of the source, run to completion.           *)
(* The event histories wEvents and rEvents record what the session emits   *)
(* to listeners the caller attached when the session was created.          *)
(***************************************************************************)
EXTENDS Integers, Sequences, FiniteSets, TLC

\* ------------------------------------------------------------------ bounds
SourceBytes == 2
MaxResumeAttempts == 2
MaxChunks == 2
MaxCalls == 2

\* ------------------------------------------------------- values and inputs
RedirectCodes == {301, 307}
SuccessCodes == {200, 201}
ErrorCodes == {400, 401, 402, 403, 404, 500}

\* status codes the modelled remote service may answer with: members of each
\* class, and 503 as a code outside all three classes
StatusCodes == {200, 201, 301, 307, 404, 500, 503}

NoLocation == "no-location"

\* the client: this._opts and the initial this._url of the constructor
\* (_url has no search property before the first endpoint is built)
_opts == [user |-> "hdfs", host |-> "namenode", port |-> "50070",
          path |-> "/webhdfs/v1"]
Client ==
  [protocol |-> "http", hostname |-> _opts.host, port |-> _opts.port,
   pathname |-> _opts.path, search |-> ""]

\* a JavaScript object: its own properties in insertion order; NoParams is an
\* argument that was not passed
NoParams == <<>>
NoValue == "undefined"

setProperty(obj, name, value) ==
  IF \E i \in DOMAIN obj : obj[i].k = name
  THEN [i \in DOMAIN obj |->
          IF obj[i].k = name THEN [k |-> name, v |-> value] ELSE obj[i]]
  ELSE Append(obj, [k |-> name, v |-> value])

\* extend(target, source): every defined property of source is copied over
\* target, replacing a property of the same name
RECURSIVE extend(_, _)
extend(target, source) ==
  IF source = <<>> THEN target
  ELSE extend(IF Head(source).v = NoValue THEN target
              ELSE setProperty(target, Head(source).k, Head(source).v),
              Tail(source))

\* querystring.stringify
RECURSIVE stringify(_)
stringify(obj) ==
  IF obj = <<>> THEN ""
  ELSE Head(obj).k \o "=" \o Head(obj).v
       \o (IF Tail(obj) = <<>> THEN "" ELSE "&" \o stringify(Tail(obj)))

\* url.format
format(urlObject) ==
  urlObject.protocol \o "://" \o urlObject.hostname \o ":" \o urlObject.port
  \o urlObject.pathname
  \o (IF urlObject.search = "" THEN "" ELSE "?" \o urlObject.search)

\* the query object _getOperationEndpoint serializes
endpointQuery(operation, params) ==
  extend(<<[k |-> "op", v |-> operation], [k |-> "user.name", v |-> _opts.user]>>,
         params)

\* _getOperationEndpoint(operation, path, params) on a client whose _url
\* object is self: the returned string and the _url object it leaves behind
_getOperationEndpoint_cached(self, operation, path, params) ==
  LET endpoint == [self EXCEPT !.pathname = _opts.path \o path,
                               !.search = IF self.search = ""
                                          THEN stringify(endpointQuery(operation, params))
                                          ELSE self.search]
  IN [url |-> format(endpoint), _url |-> endpoint]

_getOperationEndpoint(self, operation, path, params) ==
  LET endpoint == [self EXCEPT !.pathname = _opts.path \o path,
                               !.search = stringify(endpointQuery(operation, params))]
  IN [url |-> format(endpoint), _url |-> endpoint]

OpenUrl == _getOperationEndpoint(Client, "OPEN", "/f", NoParams).url
Locations == {"http://datanode/webhdfs/v1/f", OpenUrl}

\* response bodies: a JSON RemoteException envelope, other JSON, non-JSON text
Bodies == {"RemoteException", "json", "text"}
EnvelopeMessage == "File not found"
TransportError == "ECONNRESET"
NoPayload == "no-payload"
NoStream == "null"

NoOutcome == [kind |-> "none", status |-> 0, location |-> NoLocation, body |-> "text"]

\* what the transport hands to a request callback: (err) or (null, res, body)
Outcomes ==
  {[kind |-> "err", status |-> 0, location |-> NoLocation, body |-> "text"]}
  \cup [kind : {"res"}, status : StatusCodes,
        location : Locations \cup {NoLocation}, body : Bodies]

\* what the transport hands to a 'response' listener (the body comes as chunks)
Responses ==
  [kind : {"res"}, status : StatusCodes,
   location : Locations \cup {NoLocation}, body : {"text"}]

ChunkVals == {"RemoteException", "text"}

\* path arguments of stat and exists: a path, the empty string, a non-string
Paths ==
  {[type |-> "string", value |-> "/f"], [type |-> "string", value |-> ""],
   [type |-> "number", value |-> "7"]}

\* bodies of a metadata response as the transport hands them over (json: true):
\* { RemoteException: ... }, { FileStatus: {...} }, { FileStatus: null },
\* another object, a string that is not JSON
MetaBodies == {"RemoteException", "FileStatus", "FileStatusNull", "json", "text"}

\* what the transport hands to the callback of _sendRequest
MetaOutcomes ==
  {[kind |-> "err", status |-> 0, location |-> NoLocation, body |-> "text"]}
  \cup [kind : {"res"}, status : StatusCodes,
        location : {NoLocation}, body : MetaBodies]

\* arguments of _getOperationEndpoint: operations, paths and extra parameters,
\* the latter as callers may pass them through (createReadStream(path, opts))
Operations == {"OPEN", "CREATE"}
EndpointPaths == {"/f", "/g"}
ParamSets ==
  {NoParams,
   <<[k |-> "offset", v |-> "1"]>>,
   <<[k |-> "op", v |-> "DELETE"]>>,
   <<[k |-> "user.name", v |-> "root"], [k |-> "length", v |-> "2"]>>}

\* no second session: no createWriteStream call, no request
NoArgs == [path |-> "", append |-> FALSE, opts |-> NoParams]
NoRequest == [method |-> "", url |-> ""]

\* opts of createWriteStream
WriteOpts == {NoParams, <<[k |-> "overwrite", v |-> "false"]>>}

\* sources arguments of concat: a string, the empty string, a list of
\* strings, a number, nothing; items holds the string, the elements of the
\* list, the digits of the number
SourcesVals ==
  {[type |-> "string", items |-> <<"a">>], [type |-> "string", items |-> <<"">>],
   [type |-> "array", items |-> <<"a", "b">>],
   [type |-> "number", items |-> <<"7">>],
   [type |-> "undefined", items |-> <<>>]}
NoSources == [type |-> "undefined", items |-> <<>>]

NoError == "null"
NoBody == "undefined"
NoStats == "undefined"

ErrorEvent(err) == [type |-> "error", arg |-> err, from |-> "session"]
FinishEvent(payload) == [type |-> "finish", arg |-> payload, from |-> "session"]
DataEvent(chunk, origin) == [type |-> "data", arg |-> chunk, from |-> origin]

\* ------------------------------------------------------------ pure helpers
_parseError(body, strict) ==
  IF body = "RemoteException" THEN EnvelopeMessage
  ELSE IF ~strict THEN "Unknown error"
  ELSE "null"

_isRedirect_statusOnly(res) == res.status \in RedirectCodes

_isRedirect(res) ==
  res.status \in RedirectCodes /\ res.location # NoLocation

_isSuccess_only200(res) == res.status = 200

_isSuccess(res) == res.status \in SuccessCodes

_isError(res) == res.status \in ErrorCodes

\* emitError(instance, err): instance is the session's request object, here
\* its emitted events and its errorEmitted latch
emitError_noFinish(instance, err) ==
  [events |-> IF ~instance.errorEmitted
              THEN Append(instance.events, ErrorEvent(err))
              ELSE instance.events,
   errorEmitted |-> TRUE]

emitError_noLatch(instance, err) ==
  [events |-> IF ~instance.errorEmitted
              THEN instance.events \o <<ErrorEvent(err), FinishEvent(NoPayload)>>
              ELSE instance.events,
   errorEmitted |-> instance.errorEmitted]

emitError(instance, err) ==
  [events |-> IF ~instance.errorEmitted
              THEN instance.events \o <<ErrorEvent(err), FinishEvent(NoPayload)>>
              ELSE instance.events,
   errorEmitted |-> TRUE]

\* req.emit('finish', res.headers.location) if the response has the header,
\* req.emit('finish') otherwise
finishPayload_never(res) == NoPayload

finishPayload(res) == IF res.location # NoLocation THEN res.location ELSE NoPayload

\* err || self._parseError(body)
errorOf_parsedOnly(o) == _parseError(o.body, FALSE)

errorOf(o) == IF o.kind = "err" THEN TransportError ELSE _parseError(o.body, FALSE)

\* err || self._isError(res)
failed(o) == o.kind = "err" \/ _isError(o)

\* params of createWriteStream: method and url of the first request
\* endpoint of createWriteStream(path, append, opts) on a client whose _url
\* object is self
writeEndpoint(self, path, append, opts) ==
  _getOperationEndpoint(self, IF append THEN "APPEND" ELSE "CREATE", path,
                        extend(<<[k |-> "overwrite", v |-> "true"],
                                 [k |-> "permissions", v |-> "0755"]>>, opts))

writeParams(endpoint, append) ==
  [method |-> IF append THEN "POST" ELSE "PUT", url |-> endpoint]

\* extend(params, { url: res.headers.location })
uploadParams_sameUrl(params, location) == params

uploadParams(params, location) == [params EXCEPT !.url = location]

\* if (res && self._isRedirect(res))
redirectBranch_anyResponse(o) == o.kind = "res"

redirectBranch(o) == o.kind = "res" /\ _isRedirect(o)

\* the source's 'resume' listener: flowing is forced back to false unless
\* canResume; the value is the source's flowing flag after a resume()
resume_notSuppressed(can) == TRUE

resume(can) == can

\* params of createReadStream
readParams ==
  [method |-> "GET", url |-> _getOperationEndpoint(Client, "OPEN", "/f", NoParams).url]

\* request(params) of the redirect branch of createReadStream
downloadParams(params, location) == params

\* removeAllListeners('data')
removeAllListeners_none(listeners) == listeners

removeAllListeners(listeners) == {}

\* req.emit('data', chunk): the caller's listener receives the chunk, the
\* error parser (onData) emits 'error' with the parsed chunk
emitData(listeners, events, chunk, origin) ==
  LET e1 == IF "consumer" \in listeners
            THEN Append(events, DataEvent(chunk, origin)) ELSE events
  IN IF "onData" \in listeners
     THEN Append(e1, ErrorEvent(_parseError(chunk, FALSE))) ELSE e1

\* !path || typeof path !== 'string'
invalidPath(path) == path.value = "" \/ path.type # "string"

\* !sources || !_.isString(sources) || !_.isArray(sources)
invalidSources(sources) ==
  \/ sources.type = "undefined" \/ sources.items = <<"">>
  \/ ~(sources.type = "string")
  \/ ~(sources.type = "array")

\* _.isArray(sources) ? _.join(sources, ',') : sources
RECURSIVE join(_)
join(items) ==
  IF items = <<>> THEN ""
  ELSE Head(items) \o (IF Tail(items) = <<>> THEN "" ELSE "," \o join(Tail(items)))

\* request options of _sendRequest: extend({ method, url, json: true }, ...)
sendParams(method, url) == [method |-> method, url |-> url, json |-> TRUE]

\* onComplete of _sendRequest: the arguments its callback is invoked with
_sendRequest(o) ==
  IF o.kind = "err"
  THEN [err |-> TransportError, res |-> FALSE, body |-> NoBody]
  ELSE IF _isError(o)
  THEN [err |-> _parseError(o.body, FALSE), res |-> FALSE, body |-> NoBody]
  ELSE IF _isSuccess(o)
  THEN [err |-> NoError, res |-> TRUE, body |-> o.body]
  ELSE [err |-> "Unexpected redirect", res |-> TRUE, body |-> o.body]

\* the callback stat passes to _sendRequest: the arguments stat's own
\* callback is invoked with
stat(a) ==
  IF a.err # NoError THEN [err |-> a.err, stats |-> NoStats]
  ELSE IF a.body \in {"FileStatus", "FileStatusNull"}
  THEN [err |-> NoError,
        stats |-> IF a.body = "FileStatus" THEN "FileStatus" ELSE "null"]
  ELSE [err |-> "Invalid data structure", stats |-> NoStats]

\* onStatResult of exists: err || !stats ? false : true
onStatResult(r) ==
  IF r.err # NoError \/ r.stats \in {NoStats, "null"} THEN FALSE ELSE TRUE

\* ------------------------------------------------------------------- state
VARIABLES
  session,        \* "upload" or "download": the session this behaviour follows
  \* upload session (createWriteStream)
  wParams,        \* params: extend(params, ...) overwrites its url
  wReq,           \* method and url the first request was issued with
  wPc1,           \* first request: "pending" | "done" (callback has run)
  wFirst,         \* outcome the first callback received
  wUpload,        \* sequence of the second requests issued (their params)
  wPc2,           \* second request: "none" | "pending" | "done"
  wSecond,        \* outcome the second callback received
  errorEmitted,   \* req.errorEmitted
  wStream,        \* stream: NoStream or "src"
  canResume,      \* canResume
  wThrown,        \* the first callback threw (stream.pipe on null)
  wReqEnds,       \* number of req.end() calls
  wEvents,        \* events emitted on req by the session
  \* the caller's byte source
  srcFlowing,     \* _readableState.flowing
  srcPipedTo,     \* requests the source is piped into
  srcLeft,        \* bytes not yet read from the source
  bytesTo,        \* bytes each request received from the source
  resumeCalls,    \* stream.resume() calls made by the session
  resumeAttempts, \* resume() calls made by other code
  \* download session (createReadStream)
  rParams,        \* params: method and url of the first request
  rPc1,           \* first request: "pending" | "responded" | "complete" | "failed"
  rRes1,          \* response of the first request
  rChunks1,       \* body chunks received on the first request
  rListeners,     \* 'data' listeners on req: the caller's, the error parser
  rDownload,      \* sequence of the second requests issued (their params)
  rPc2,           \* second request: "none" | "pending" | "responded" | "complete" | "failed"
  rRes2,          \* response of the second request
  rChunks2,       \* body chunks received on the second request
  dListeners,     \* 'data' listeners on download: the proxy, the error parser
  rReqEnds,       \* number of req.end() calls
  rEvents,        \* events delivered to the caller's listeners on req
  \* metadata call (stat, exists)
  mOp,            \* "stat" or "exists": the method the caller invokes
  mPath,          \* its path argument
  mPc,            \* "idle" | "pending" | "done" | "thrown"
  mRequests,      \* requests issued by _sendRequest (their options)
  mOutcome,       \* outcome the transport delivered to onComplete
  mSend,          \* invocations of the callback of _sendRequest
  mStat,          \* invocations of the callback of stat
  mExists,        \* invocations of the callback of exists
  mSources,       \* sources argument of concat
  mConcat,        \* invocations of the callback of concat
  \* the client
  _url,           \* this._url, the object _getOperationEndpoint writes to
  eCalls,         \* calls of _getOperationEndpoint made one after the other
  \* a second upload session, created on the same client
  pArgs,          \* arguments of its createWriteStream call
  pParams,        \* its params
  pReq,           \* method and url its first request was issued with
  pPc1,           \* its first request: "none" | "pending" | "done"
  pFirst,         \* outcome its first callback received
  pUpload,        \* sequence of its second requests (their params)
  pPc2,           \* its second request: "none" | "pending" | "done"
  pSecond,        \* outcome its second callback received
  pErrorEmitted,  \* its req.errorEmitted
  pStream,        \* its stream: NoStream or "src2"
  pThrown,        \* its first callback threw (stream.pipe on null)
  pEvents         \* events emitted on its req

wvars == <<wParams, wReq, wPc1, wFirst, wUpload, wPc2, wSecond, errorEmitted,
           wStream, canResume, wThrown, wReqEnds, wEvents, srcFlowing,
           srcPipedTo, srcLeft, bytesTo, resumeCalls, resumeAttempts>>

rvars == <<rParams, rPc1, rRes1, rChunks1, rListeners, rDownload, rPc2,
           rRes2, rChunks2, dListeners, rReqEnds, rEvents>>

mvars == <<mOp, mPath, mPc, mRequests, mOutcome, mSend, mStat, mExists,
           mSources, mConcat>>

evars == <<_url, eCalls>>

pvars == <<pArgs, pParams, pReq, pPc1, pFirst, pUpload, pPc2, pSecond,
           pErrorEmitted, pStream, pThrown, pEvents>>

vars == <<session, wvars, rvars, mvars, evars, pvars>>

Init ==
  /\ session \in {"upload", "download", "metadata", "endpoint"}
  /\ \E append \in (IF session = "upload" THEN BOOLEAN ELSE {FALSE}) :
        /\ wParams = writeParams(writeEndpoint(Client, "/f", append, NoParams).url,
                                 append)
        /\ _url = CASE session = "upload" ->
                         writeEndpoint(Client, "/f", append, NoParams)._url
                   [] session = "download" ->
                         _getOperationEndpoint(Client, "OPEN", "/f", NoParams)._url
                   [] OTHER -> Client
  /\ eCalls = <<>>
  /\ wReq = wParams
  /\ wPc1 = "pending"
  /\ wFirst = NoOutcome
  /\ wUpload = <<>>
  /\ wPc2 = "none"
  /\ wSecond = NoOutcome
  /\ errorEmitted = FALSE
  /\ wStream = NoStream
  /\ canResume = TRUE
  /\ wThrown = FALSE
  /\ wReqEnds = 0
  /\ wEvents = <<>>
  /\ srcFlowing = FALSE
  /\ srcPipedTo = {}
  /\ srcLeft = SourceBytes
  /\ bytesTo = [r \in {"req", "upload"} |-> 0]
  /\ resumeCalls = 0
  /\ resumeAttempts = 0
  /\ rParams = readParams
  /\ rPc1 = "pending"
  /\ rRes1 = NoOutcome
  /\ rChunks1 = 0
  /\ rListeners = {"consumer"}
  /\ rDownload = <<>>
  /\ rPc2 = "none"
  /\ rRes2 = NoOutcome
  /\ rChunks2 = 0
  /\ dListeners = {}
  /\ rReqEnds = 0
  /\ rEvents = <<>>
  /\ mOp \in (IF session = "metadata" THEN {"stat", "exists", "concat"}
              ELSE {"stat"})
  /\ mPath \in (IF session = "metadata" /\ mOp # "concat" THEN Paths
                ELSE {[type |-> "string", value |-> "/f"]})
  /\ mSources \in (IF mOp = "concat" THEN SourcesVals ELSE {NoSources})
  /\ mConcat = <<>>
  /\ mPc = "idle"
  /\ mRequests = <<>>
  /\ mOutcome = NoOutcome
  /\ mSend = <<>>
  /\ mStat = <<>>
  /\ mExists = <<>>
  /\ pArgs = NoArgs
  /\ pParams = NoRequest
  /\ pReq = NoRequest
  /\ pPc1 = "none"
  /\ pFirst = NoOutcome
  /\ pUpload = <<>>
  /\ pPc2 = "none"
  /\ pSecond = NoOutcome
  /\ pErrorEmitted = FALSE
  /\ pStream = NoStream
  /\ pThrown = FALSE
  /\ pEvents = <<>>

\* ---------------------------------------------------------- upload session
WriteLive == session = "upload" /\ ~wThrown

\* localStream.pipe(remoteStream): the source is piped into req, req emits
\* 'pipe' and onPipe pauses the source, forbids resuming, unpipes and ends req
onPipe ==
  /\ WriteLive
  /\ wStream = NoStream
  /\ wStream' = "src"
  /\ srcFlowing' = FALSE
  /\ canResume' = FALSE
  /\ srcPipedTo' = (srcPipedTo \cup {"req"}) \ {"req"}
  /\ wReqEnds' = wReqEnds + 1
  /\ UNCHANGED <<session, mvars, evars, pvars, rvars, wReq, wParams, wPc1, wFirst, wUpload, wPc2, wSecond,
                 errorEmitted, wThrown, wEvents, srcLeft, bytesTo,
                 resumeCalls, resumeAttempts>>

\* resume() of the source called by code other than the session (pipe()
\* itself resumes a non-flowing source): the 'resume' listener runs
ExternalResume ==
  /\ WriteLive
  /\ wStream # NoStream
  /\ resumeAttempts < MaxResumeAttempts
  /\ resumeAttempts' = resumeAttempts + 1
  /\ srcFlowing' = resume(canResume)
  /\ UNCHANGED <<session, mvars, evars, pvars, rvars, wReq, wParams, wPc1, wFirst, wUpload, wPc2, wSecond,
                 errorEmitted, wStream, canResume, wThrown, wReqEnds, wEvents,
                 srcPipedTo, srcLeft, bytesTo, resumeCalls>>

\* a flowing source hands its next byte to every request it is piped into
SourceData ==
  /\ WriteLive
  /\ srcFlowing
  /\ srcLeft > 0
  /\ srcLeft' = srcLeft - 1
  /\ bytesTo' = [r \in {"req", "upload"} |->
                   IF r \in srcPipedTo THEN bytesTo[r] + 1 ELSE bytesTo[r]]
  /\ UNCHANGED <<session, mvars, evars, pvars, rvars, wReq, wParams, wPc1, wFirst, wUpload, wPc2, wSecond,
                 errorEmitted, wStream, canResume, wThrown, wReqEnds, wEvents,
                 srcFlowing, srcPipedTo, resumeCalls, resumeAttempts>>

\* callback of the first request
FirstCallback(o) ==
  /\ WriteLive
  /\ wPc1 = "pending"
  /\ wPc1' = "done"
  /\ wFirst' = o
  /\ IF redirectBranch(o)
     THEN /\ wUpload' = Append(wUpload, uploadParams(wParams, o.location))
          /\ wParams' = uploadParams(wParams, o.location)
          /\ wPc2' = "pending"
          /\ canResume' = TRUE
          /\ IF wStream = NoStream
             THEN /\ wThrown' = TRUE
                  /\ UNCHANGED <<srcPipedTo, srcFlowing, resumeCalls>>
             ELSE /\ wThrown' = FALSE
                  /\ srcPipedTo' = srcPipedTo \cup {"upload"}
                  /\ srcFlowing' = resume(TRUE)
                  /\ resumeCalls' = resumeCalls + 1
     ELSE UNCHANGED <<wUpload, wParams, wPc2, canResume, wThrown, srcPipedTo,
                      srcFlowing, resumeCalls>>
  /\ IF wThrown' = FALSE /\ failed(o)
     THEN /\ wEvents' = emitError([events |-> wEvents, errorEmitted |-> errorEmitted],
                                  errorOf(o)).events
          /\ errorEmitted' = emitError([events |-> wEvents, errorEmitted |-> errorEmitted],
                                       errorOf(o)).errorEmitted
     ELSE UNCHANGED <<wEvents, errorEmitted>>
  /\ UNCHANGED <<session, mvars, evars, pvars, rvars, wReq, wSecond, wStream, wReqEnds, srcLeft,
                 bytesTo, resumeAttempts>>

\* callback of the second request (upload)
SecondCallback(o) ==
  /\ WriteLive
  /\ wPc2 = "pending"
  /\ wPc2' = "done"
  /\ wSecond' = o
  /\ IF failed(o)
     THEN /\ wEvents' = emitError([events |-> wEvents, errorEmitted |-> errorEmitted],
                                  errorOf(o)).events
          /\ errorEmitted' = emitError([events |-> wEvents, errorEmitted |-> errorEmitted],
                                       errorOf(o)).errorEmitted
          /\ wReqEnds' = wReqEnds + 1
     ELSE /\ wEvents' = Append(wEvents, FinishEvent(finishPayload(o)))
          /\ UNCHANGED <<errorEmitted, wReqEnds>>
  /\ UNCHANGED <<session, mvars, evars, pvars, rvars, wReq, wParams, wPc1, wFirst, wUpload, wStream, canResume,
                 wThrown, srcFlowing, srcPipedTo, srcLeft, bytesTo,
                 resumeCalls, resumeAttempts>>

\* -------------------------------------------------------- download session
ReadLive == session = "download"

\* req.on('response')
onResponse1(res) ==
  /\ ReadLive
  /\ rPc1 = "pending"
  /\ rPc1' = "responded"
  /\ rRes1' = res
  /\ IF _isError(res)
     THEN /\ rListeners' = removeAllListeners(rListeners) \cup {"onData"}
          /\ UNCHANGED <<rDownload, rPc2, dListeners>>
     ELSE IF _isRedirect(res)
     THEN /\ rDownload' = Append(rDownload, downloadParams(rParams, res.location))
          /\ rPc2' = "pending"
          /\ dListeners' = {"proxy"}
          /\ UNCHANGED rListeners
     ELSE UNCHANGED <<rListeners, rDownload, rPc2, dListeners>>
  /\ UNCHANGED <<session, mvars, evars, pvars, wvars, rParams, rChunks1, rRes2, rChunks2,
                 rReqEnds, rEvents>>

\* a body chunk of the first response: 'data' on req
onData1(chunk) ==
  /\ ReadLive
  /\ rPc1 = "responded"
  /\ rChunks1 < MaxChunks
  /\ rChunks1' = rChunks1 + 1
  /\ rEvents' = emitData(rListeners, rEvents, chunk, "req")
  /\ rReqEnds' = IF "onData" \in rListeners THEN rReqEnds + 1 ELSE rReqEnds
  /\ UNCHANGED <<session, mvars, evars, pvars, wvars, rParams, rPc1, rRes1, rListeners, rDownload,
                 rPc2, rRes2, rChunks2, dListeners>>

\* req.on('complete')
onComplete1 ==
  /\ ReadLive
  /\ rPc1 = "responded"
  /\ rPc1' = "complete"
  /\ rEvents' = Append(rEvents, FinishEvent(NoPayload))
  /\ UNCHANGED <<session, mvars, evars, pvars, wvars, rParams, rRes1, rChunks1, rListeners,
                 rDownload, rPc2, rRes2, rChunks2, dListeners, rReqEnds>>

\* transport failure of the first request: createReadStream registers no
\* handler for it, but req, the request object, is the session the caller
\* listens on, so the 'error' the transport reports on it reaches the caller
onFail1 ==
  /\ ReadLive
  /\ rPc1 \in {"pending", "responded"}
  /\ rPc1' = "failed"
  /\ rEvents' = Append(rEvents, ErrorEvent(TransportError))
  /\ UNCHANGED <<session, mvars, evars, pvars, wvars, rParams, rRes1, rChunks1, rListeners,
                 rDownload, rPc2, rRes2, rChunks2, dListeners, rReqEnds>>

\* download.on('response')
onResponse(res) ==
  /\ ReadLive
  /\ rPc2 = "pending"
  /\ rPc2' = "responded"
  /\ rRes2' = res
  /\ dListeners' = IF _isError(res)
                   THEN removeAllListeners(dListeners) \cup {"onData"}
                   ELSE dListeners
  /\ UNCHANGED <<session, mvars, evars, pvars, wvars, rParams, rPc1, rRes1, rChunks1, rListeners,
                 rDownload, rChunks2, rReqEnds, rEvents>>

\* a body chunk of the second response: 'data' on download
onData(chunk) ==
  /\ ReadLive
  /\ rPc2 = "responded"
  /\ rChunks2 < MaxChunks
  /\ rChunks2' = rChunks2 + 1
  /\ rEvents' =
       LET e1 == IF "proxy" \in dListeners
                 THEN emitData(rListeners, rEvents, chunk, "download")
                 ELSE rEvents
       IN IF "onData" \in dListeners
          THEN Append(e1, ErrorEvent(_parseError(chunk, FALSE))) ELSE e1
  /\ rReqEnds' = IF "onData" \in dListeners THEN rReqEnds + 1 ELSE rReqEnds
  /\ UNCHANGED <<session, mvars, evars, pvars, wvars, rParams, rPc1, rRes1, rChunks1, rListeners,
                 rDownload, rPc2, rRes2, dListeners>>

\* download.on('complete')
onComplete ==
  /\ ReadLive
  /\ rPc2 = "responded"
  /\ rPc2' = "complete"
  /\ rEvents' = Append(rEvents, FinishEvent(NoPayload))
  /\ UNCHANGED <<session, mvars, evars, pvars, wvars, rParams, rPc1, rRes1, rChunks1, rListeners,
                 rDownload, rRes2, rChunks2, dListeners, rReqEnds>>

\* transport failure of the second request: download is a separate request
\* object, no 'error' listener is registered on it and nothing is forwarded
\* to req
onFail ==
  /\ ReadLive
  /\ rPc2 \in {"pending", "responded"}
  /\ rPc2' = "failed"
  /\ UNCHANGED <<session, mvars, evars, pvars, wvars, rParams, rPc1, rRes1, rChunks1, rListeners,
                 rDownload, rRes2, rChunks2, dListeners, rReqEnds, rEvents>>

\* ------------------------------------------------------------ metadata call
\* exists(path, callback) calls stat(path, onStatResult); stat validates the
\* path, throws on an invalid one, and otherwise issues one GET through
\* _sendRequest
statCall ==
  /\ session = "metadata"
  /\ mOp \in {"stat", "exists"}
  /\ mPc = "idle"
  /\ IF invalidPath(mPath)
     THEN /\ mPc' = "thrown"
          /\ UNCHANGED <<mRequests, _url>>
     ELSE /\ mPc' = "pending"
          /\ mRequests' = Append(mRequests,
                 sendParams("GET",
                   _getOperationEndpoint(_url, "GETFILESTATUS", mPath.value, NoParams).url))
          /\ _url' = _getOperationEndpoint(_url, "GETFILESTATUS", mPath.value, NoParams)._url
  /\ UNCHANGED <<session, wvars, rvars, mOp, mPath, mOutcome, mSend, mStat, mExists,
                 mSources, mConcat, eCalls, pvars>>

\* concat(path, sources, callback): validates path and sources, throws on an
\* invalid one, and otherwise issues one POST through _sendRequest
concat ==
  /\ session = "metadata"
  /\ mOp = "concat"
  /\ mPc = "idle"
  /\ IF invalidPath(mPath) \/ invalidSources(mSources)
     THEN /\ mPc' = "thrown"
          /\ UNCHANGED <<mRequests, _url>>
     ELSE /\ mPc' = "pending"
          /\ mRequests' = Append(mRequests,
                 sendParams("POST",
                   _getOperationEndpoint(_url, "CONCAT", mPath.value,
                     <<[k |-> "sources", v |-> join(mSources.items)]>>).url))
          /\ _url' = _getOperationEndpoint(_url, "CONCAT", mPath.value,
                        <<[k |-> "sources", v |-> join(mSources.items)]>>)._url
  /\ UNCHANGED <<session, wvars, rvars, mOp, mPath, mOutcome, mSend, mStat, mExists,
                 mSources, mConcat, eCalls, pvars>>

\* onComplete of _sendRequest runs the callback of stat, which runs stat's
\* caller's callback: onStatResult when the caller is exists; for concat it
\* runs the callback of concat, which passes the error on
sendComplete(o) ==
  /\ session = "metadata"
  /\ mPc = "pending"
  /\ mPc' = "done"
  /\ mOutcome' = o
  /\ mSend' = Append(mSend, _sendRequest(o))
  /\ mStat' = IF mOp = "concat" THEN mStat
              ELSE Append(mStat, stat(_sendRequest(o)))
  /\ mExists' = IF mOp = "exists"
                THEN Append(mExists, onStatResult(stat(_sendRequest(o))))
                ELSE mExists
  /\ mConcat' = IF mOp = "concat" THEN Append(mConcat, _sendRequest(o).err)
                ELSE mConcat
  /\ UNCHANGED <<session, wvars, rvars, evars, pvars, mOp, mPath, mRequests,
                 mSources>>

\* ----------------------------------------------------------- endpoint calls
\* a method of the client builds its endpoint:
\* this._getOperationEndpoint(operation, path, params)
getEndpoint(operation, path, params) ==
  /\ session = "endpoint"
  /\ Len(eCalls) < MaxCalls
  /\ _url' = _getOperationEndpoint(_url, operation, path, params)._url
  /\ eCalls' = Append(eCalls,
        [operation |-> operation, path |-> path, params |-> params,
         query |-> endpointQuery(operation, params),
         url |-> _getOperationEndpoint(_url, operation, path, params).url])
  /\ UNCHANGED <<session, wvars, rvars, mvars, pvars>>

Next ==
  \/ onPipe
  \/ ExternalResume
  \/ SourceData
  \/ \E o \in Outcomes : FirstCallback(o)
  \/ \E o \in Outcomes : SecondCallback(o)
  \/ \E res \in Responses : onResponse1(res)
  \/ \E chunk \in ChunkVals : onData1(chunk)
  \/ onComplete1
  \/ onFail1
  \/ \E res \in Responses : onResponse(res)
  \/ \E chunk \in ChunkVals : onData(chunk)
  \/ onComplete
  \/ onFail
  \/ statCall
  \/ concat
  \/ \E o \in MetaOutcomes : sendComplete(o)
  \/ \E operation \in Operations, path \in EndpointPaths, params \in ParamSets :
       getEndpoint(operation, path, params)

Spec == Init /\ [][Next]_vars

\* ================================================================ round trip
\* writeFile followed by readFile against a remote service that answers
\* CREATE and OPEN on the namenode with a redirect to the datanode, stores the
\* bytes uploaded to the datanode and serves them to a GET on the datanode.
\* The content is a number of equal bytes; one chunk carries one byte.
DataNodeUrl == "http://datanode/webhdfs/v1/f"

\* the content handed to writeFile, and the bytes the datanode has stored
Content == srcLeft + bytesTo["req"] + bytesTo["upload"]
Stored == bytesTo["upload"]

\* the service's answer to a request, by its url: the datanode creates
\* (callback-style request) or serves (event-style request), the namenode
\* redirects to the datanode
serviceOutcome(url) ==
  IF url = DataNodeUrl
  THEN [kind |-> "res", status |-> 201, location |-> NoLocation, body |-> "text"]
  ELSE [kind |-> "res", status |-> 307, location |-> DataNodeUrl, body |-> "text"]

serviceResponse(url) ==
  IF url = DataNodeUrl
  THEN [kind |-> "res", status |-> 200, location |-> NoLocation, body |-> "text"]
  ELSE [kind |-> "res", status |-> 307, location |-> DataNodeUrl, body |-> "text"]

\* the next body chunk of the answer after sent chunks: the datanode serves
\* the stored bytes; a redirect answer may carry a short note as its body
serviceChunks(url, sent) ==
  IF url = DataNodeUrl
  THEN (IF sent < Stored THEN {"byte"} ELSE {})
  ELSE (IF sent < 1 THEN {"text"} ELSE {})

\* the answer is complete: the datanode has sent every stored byte; a
\* redirect answer ends with or without its note
serviceDone(url, sent) == url = DataNodeUrl => sent = Stored

NoCall == [called |-> FALSE, err |-> NoError, data |-> <<>>]

\* index of the first event of a type, 0 if there is none
FirstIndex(events, type) ==
  IF \A i \in DOMAIN events : events[i].type # type THEN 0
  ELSE CHOOSE i \in DOMAIN events :
         /\ events[i].type = type
         /\ \A j \in 1..(i - 1) : events[j].type # type

\* Buffer.concat(data) of the chunks pushed by the 'data' listener
concatChunks(events) ==
  LET d == SelectSeq(events, LAMBDA e : e.type = "data")
  IN [i \in 1..Len(d) |-> d[i].arg]

\* writeFile: once('error') records the error, once('finish') calls back with
\* it; the value is the invocation of writeFile's callback, if it happened
writeFileCallback(events) ==
  LET f == FirstIndex(events, "finish")
      e == FirstIndex(events, "error")
  IN IF f = 0 THEN NoCall
     ELSE [called |-> TRUE,
           err |-> IF e # 0 /\ e < f THEN events[e].arg ELSE NoError,
           data |-> <<>>]

\* readFile: once('error') records the error, on('data') pushes the chunk,
\* once('finish') calls back with the error or with the concatenated chunks
readFileCallback(events) ==
  LET f == FirstIndex(events, "finish")
      e == FirstIndex(events, "error")
  IN IF f = 0 THEN NoCall
     ELSE IF e # 0 /\ e < f
     THEN [called |-> TRUE, err |-> events[e].arg, data |-> <<>>]
     ELSE [called |-> TRUE, err |-> NoError,
           data |-> concatChunks(SubSeq(events, 1, f - 1))]

InitRT ==
  /\ session = "upload"
  /\ wParams = writeParams(writeEndpoint(Client, "/f", FALSE, NoParams).url, FALSE)
  /\ _url = writeEndpoint(Client, "/f", FALSE, NoParams)._url
  /\ eCalls = <<>>
  /\ wReq = wParams
  /\ wPc1 = "pending"
  /\ wFirst = NoOutcome
  /\ wUpload = <<>>
  /\ wPc2 = "none"
  /\ wSecond = NoOutcome
  /\ errorEmitted = FALSE
  /\ wStream = NoStream
  /\ canResume = TRUE
  /\ wThrown = FALSE
  /\ wReqEnds = 0
  /\ wEvents = <<>>
  /\ srcFlowing = FALSE
  /\ srcPipedTo = {}
  /\ srcLeft \in 0..SourceBytes
  /\ bytesTo = [r \in {"req", "upload"} |-> 0]
  /\ resumeCalls = 0
  /\ resumeAttempts = 0
  /\ rParams = readParams
  /\ rPc1 = "pending"
  /\ rRes1 = NoOutcome
  /\ rChunks1 = 0
  /\ rListeners = {"consumer"}
  /\ rDownload = <<>>
  /\ rPc2 = "none"
  /\ rRes2 = NoOutcome
  /\ rChunks2 = 0
  /\ dListeners = {}
  /\ rReqEnds = 0
  /\ rEvents = <<>>
  /\ mOp = "stat"
  /\ mPath = [type |-> "string", value |-> "/f"]
  /\ mSources = NoSources
  /\ mConcat = <<>>
  /\ mPc = "idle"
  /\ mRequests = <<>>
  /\ mOutcome = NoOutcome
  /\ mSend = <<>>
  /\ mStat = <<>>
  /\ mExists = <<>>
  /\ pArgs = NoArgs
  /\ pParams = NoRequest
  /\ pReq = NoRequest
  /\ pPc1 = "none"
  /\ pFirst = NoOutcome
  /\ pUpload = <<>>
  /\ pPc2 = "none"
  /\ pSecond = NoOutcome
  /\ pErrorEmitted = FALSE
  /\ pStream = NoStream
  /\ pThrown = FALSE
  /\ pEvents = <<>>

\* writeFile: localStream.pipe(remoteStream) right after createWriteStream
writeFile ==
  /\ session = "upload"
  /\ onPipe

\* the namenode answers CREATE once the request was sent
NameNodeCreate ==
  /\ wStream # NoStream
  /\ FirstCallback(serviceOutcome(wReq.url))

\* the datanode answers the upload once it has received the whole content
DataNodeStore ==
  /\ wPc2 = "pending"
  /\ srcLeft = 0
  /\ SecondCallback(serviceOutcome(wUpload[1].url))

\* readFile, called after writeFile has called back: createReadStream
readFile ==
  /\ session = "upload"
  /\ writeFileCallback(wEvents).called
  /\ session' = "download"
  /\ _url' = _getOperationEndpoint(_url, "OPEN", "/f", NoParams)._url
  /\ UNCHANGED <<wvars, rvars, mvars, eCalls, pvars>>

ServiceResponse1 ==
  /\ rPc1 = "pending"
  /\ onResponse1(serviceResponse(rParams.url))

ServiceChunk1 ==
  /\ rPc1 = "responded"
  /\ \E chunk \in serviceChunks(rParams.url, rChunks1) : onData1(chunk)

ServiceComplete1 ==
  /\ serviceDone(rParams.url, rChunks1)
  /\ onComplete1

ServiceResponse2 ==
  /\ rPc2 = "pending"
  /\ onResponse(serviceResponse(rDownload[1].url))

ServiceChunk2 ==
  /\ rPc2 = "responded"
  /\ \E chunk \in serviceChunks(rDownload[1].url, rChunks2) : onData(chunk)

ServiceComplete2 ==
  /\ rPc2 = "responded"
  /\ serviceDone(rDownload[1].url, rChunks2)
  /\ onComplete

NextRT ==
  \/ writeFile
  \/ ExternalResume
  \/ SourceData
  \/ NameNodeCreate
  \/ DataNodeStore
  \/ readFile
  \/ ServiceResponse1
  \/ ServiceChunk1
  \/ ServiceComplete1
  \/ ServiceResponse2
  \/ ServiceChunk2
  \/ ServiceComplete2

SpecRT == InitRT /\ [][NextRT]_vars

\* ======================================================= concurrent sessions
\* A second upload session is created on the same client while the first
\* session (upload or download) runs, and the events of both interleave.
\* The callers' byte sources, objects of their own, deliver nothing here.
\* An uncaught exception of either session ends the process.
ParOutcomes ==
  {o \in Outcomes :
     \/ o.kind = "err"
     \/ /\ o.status \in {201, 307, 404}
        /\ o.location # NoLocation
        /\ o.body = "RemoteException"}

ParResponses ==
  {res \in Responses : res.status \in {200, 307, 404} /\ res.location # NoLocation}

InitPar ==
  /\ Init
  /\ session \in {"upload", "download"}

ParLive == ~wThrown /\ ~pThrown

\* createWriteStream(path, append, opts) of the second session
createWriteStream2(path, append, opts) ==
  /\ ParLive
  /\ pPc1 = "none"
  /\ pArgs' = [path |-> path, append |-> append, opts |-> opts]
  /\ _url' = writeEndpoint(_url, path, append, opts)._url
  /\ pParams' = writeParams(writeEndpoint(_url, path, append, opts).url, append)
  /\ pReq' = pParams'
  /\ pPc1' = "pending"
  /\ UNCHANGED <<session, wvars, rvars, mvars, eCalls, pFirst, pUpload, pPc2,
                 pSecond, pErrorEmitted, pStream, pThrown, pEvents>>

\* onPipe of the second session
onPipe2 ==
  /\ ParLive
  /\ pPc1 # "none"
  /\ pStream = NoStream
  /\ pStream' = "src2"
  /\ UNCHANGED <<session, wvars, rvars, mvars, evars, pArgs, pParams, pReq, pPc1,
                 pFirst, pUpload, pPc2, pSecond, pErrorEmitted, pThrown, pEvents>>

\* callback of the first request of the second session
FirstCallback2(o) ==
  /\ ParLive
  /\ pPc1 = "pending"
  /\ pPc1' = "done"
  /\ pFirst' = o
  /\ IF redirectBranch(o)
     THEN /\ pUpload' = Append(pUpload, uploadParams(pParams, o.location))
          /\ pParams' = uploadParams(pParams, o.location)
          /\ pPc2' = "pending"
          /\ pThrown' = (pStream = NoStream)
     ELSE UNCHANGED <<pUpload, pParams, pPc2, pThrown>>
  /\ IF pThrown' = FALSE /\ failed(o)
     THEN /\ pEvents' = emitError([events |-> pEvents, errorEmitted |-> pErrorEmitted],
                                  errorOf(o)).events
          /\ pErrorEmitted' = emitError([events |-> pEvents,
                                         errorEmitted |-> pErrorEmitted],
                                        errorOf(o)).errorEmitted
     ELSE UNCHANGED <<pEvents, pErrorEmitted>>
  /\ UNCHANGED <<session, wvars, rvars, mvars, evars, pArgs, pReq, pSecond, pStream>>

\* callback of the second request of the second session
SecondCallback2(o) ==
  /\ ParLive
  /\ pPc2 = "pending"
  /\ pPc2' = "done"
  /\ pSecond' = o
  /\ IF failed(o)
     THEN /\ pEvents' = emitError([events |-> pEvents, errorEmitted |-> pErrorEmitted],
                                  errorOf(o)).events
          /\ pErrorEmitted' = emitError([events |-> pEvents,
                                         errorEmitted |-> pErrorEmitted],
                                        errorOf(o)).errorEmitted
     ELSE /\ pEvents' = Append(pEvents, FinishEvent(finishPayload(o)))
          /\ UNCHANGED pErrorEmitted
  /\ UNCHANGED <<session, wvars, rvars, mvars, evars, pArgs, pParams, pReq, pPc1,
                 pFirst, pUpload, pStream, pThrown>>

\* the handlers of the first session, while the process lives
ParPipe == ParLive /\ onPipe

ParFirstCallback(o) == ParLive /\ FirstCallback(o)

ParSecondCallback(o) == ParLive /\ SecondCallback(o)

ParResponse1(res) == ParLive /\ onResponse1(res)

ParComplete1 == ParLive /\ onComplete1

ParFail1 == ParLive /\ onFail1

ParResponse(res) == ParLive /\ onResponse(res)

ParComplete == ParLive /\ onComplete

ParFail == ParLive /\ onFail

NextPar ==
  \/ ParPipe
  \/ \E o \in ParOutcomes : ParFirstCallback(o)
  \/ \E o \in ParOutcomes : ParSecondCallback(o)
  \/ \E res \in ParResponses : ParResponse1(res)
  \/ ParComplete1
  \/ ParFail1
  \/ \E res \in ParResponses : ParResponse(res)
  \/ ParComplete
  \/ ParFail
  \/ \E path \in EndpointPaths, append \in BOOLEAN, opts \in WriteOpts :
       createWriteStream2(path, append, opts)
  \/ onPipe2
  \/ \E o \in ParOutcomes : FirstCallback2(o)
  \/ \E o \in ParOutcomes : SecondCallback2(o)

SpecPar == InitPar /\ [][NextPar]_vars

\* ================================================================ properties
Count(events, type) == Cardinality({i \in DOMAIN events : events[i].type = type})

\* the first response of the upload session carries a redirect status and a
\* Location header
FirstRedirected ==
  /\ wFirst.kind = "res"
  /\ wFirst.status \in {301, 307}
  /\ wFirst.location # NoLocation

C3_SecondIffRedirectStatus ==
  /\ wPc1 = "pending" => Len(wUpload) = 0
  /\ (wPc1 = "done" /\ wFirst.kind = "res") =>
       (Len(wUpload) = 1 <=> wFirst.status \in {301, 307})
  /\ rPc1 = "pending" => Len(rDownload) = 0
  /\ rRes1.kind = "res" =>
       (Len(rDownload) = 1 <=> rRes1.status \in {301, 307})

\* C3 (amended): the second request is issued if and only if the first
\* response's status is 301 or 307 and the response carries a Location
\* header; it is issued exactly once, never before the first response, and
\* never after a transport failure of the first request.
C3_SecondIffRedirectWithLocation ==
  /\ wPc1 = "pending" => Len(wUpload) = 0
  /\ wPc1 = "done" => Len(wUpload) = IF FirstRedirected THEN 1 ELSE 0
  /\ Len(rDownload) =
       IF rRes1.kind = "res" /\ rRes1.status \in {301, 307}
          /\ rRes1.location # NoLocation
       THEN 1 ELSE 0

C3_Witness ==
  /\ Len(rDownload) = 1
  /\ rPc1 = "complete"
  /\ rPc2 = "complete"

\* C4: in a download session the second GET goes to the URL of the first
\* response's Location header.
C4_SecondGetToLocation ==
  \A i \in DOMAIN rDownload : rDownload[i].url = rRes1.location

\* C5: in an upload session the second request goes to the URL of the first
\* response's Location header with the method of the first request, and the
\* caller's byte source is piped into the second request and no other: the
\* first request receives none of its bytes.
C5_UploadToLocationSameMethod ==
  /\ \A i \in DOMAIN wUpload :
       /\ wUpload[i].url = wFirst.location
       /\ wUpload[i].method = wReq.method
  /\ wStream # NoStream =>
       /\ srcPipedTo \subseteq {"upload"}
       /\ Len(wUpload) = 1 => srcPipedTo = {"upload"}
  /\ bytesTo["req"] = 0
  /\ bytesTo["upload"] = SourceBytes - srcLeft \/ srcPipedTo = {}

C5_Witness ==
  /\ wPc2 = "done"
  /\ wUpload[1].method = "POST"
  /\ bytesTo["upload"] = SourceBytes

\* C6: from the pipe of a byte source until the first response is classified
\* as a redirect the source is paused, none of its bytes is consumed, no
\* request receives a byte, also when other code calls resume().
C6_SourceHeldUntilRedirect ==
  (wStream # NoStream /\ ~(wPc1 = "done" /\ FirstRedirected)) =>
    /\ ~srcFlowing
    /\ srcLeft = SourceBytes
    /\ bytesTo["req"] = 0
    /\ bytesTo["upload"] = 0

C6_Witness ==
  /\ wStream # NoStream
  /\ wPc1 = "pending"
  /\ resumeAttempts >= 1

\* C7: the session resumes the byte source at most once, only after the
\* redirect was received and the source piped into the second request, and
\* exactly once when a redirect arrives for an attached source; without a
\* redirect the session never resumes it and it never flows.
C7_ResumedOnceAfterRedirect ==
  /\ resumeCalls <= 1
  /\ resumeCalls = 1 =>
       (wPc1 = "done" /\ FirstRedirected /\ "upload" \in srcPipedTo)
  /\ (wPc1 = "done" /\ ~FirstRedirected) => (resumeCalls = 0 /\ ~srcFlowing)
  /\ (wPc1 = "done" /\ FirstRedirected /\ wStream # NoStream) =>
       (resumeCalls = 1 /\ srcFlowing)

C7_Witness ==
  /\ resumeCalls = 1
  /\ resumeAttempts >= 1
  /\ srcLeft = 0

\* C8: an upload session whose first request got its outcome, and whose
\* second request, if one was issued, got its outcome too, has emitted a
\* terminal event (finish or error).
C8_SettledSessionIsTerminal ==
  (wPc1 = "done" /\ (Len(wUpload) >= 1 => wPc2 = "done")) =>
    (Count(wEvents, "finish") + Count(wEvents, "error") >= 1)

C10_SuccessFinishOnlyOnSuccessStatus ==
  /\ (Len(wEvents) >= 1 /\ wEvents[1].type = "finish") =>
       (wSecond.kind = "res" /\ wSecond.status \in {200, 201})
  /\ (wPc2 = "done" /\ wSecond.kind = "res" /\ wSecond.status \notin {200, 201}) =>
       Count(wEvents, "error") = 1

\* C11: when the second response of an upload is a success, 'finish' carries
\* that response's Location header if it has one and no payload otherwise,
\* and it is the session's only event.
C11_FinishCarriesLocation ==
  (wPc2 = "done" /\ wSecond.kind = "res" /\ wSecond.status \in {200, 201}) =>
    /\ Len(wEvents) = 1
    /\ wEvents[1].type = "finish"
    /\ wSecond.location # NoLocation => wEvents[1].arg = wSecond.location
    /\ wSecond.location = NoLocation => wEvents[1].arg = NoPayload

C11_Witness ==
  /\ wPc2 = "done"
  /\ wSecond.status = 201
  /\ wSecond.location = "http://datanode/webhdfs/v1/f"
  /\ wEvents[1].arg = "http://datanode/webhdfs/v1/f"

\* C12: when the first response of an upload has a remote-error status or the
\* first request fails in transport, the session emits one error carrying the
\* transport error, respectively the parsed remote exception, and no second
\* request is ever issued.
C12_FirstFailureIsErrorNoSecond ==
  (wPc1 = "done" /\ (wFirst.kind = "err"
                     \/ wFirst.status \in {400, 401, 402, 403, 404, 500})) =>
    /\ Len(wUpload) = 0
    /\ wPc2 = "none"
    /\ Count(wEvents, "error") = 1
    /\ wEvents[1].type = "error"
    /\ wEvents[1].arg =
         IF wFirst.kind = "err" THEN "ECONNRESET"
         ELSE IF wFirst.body = "RemoteException" THEN "File not found"
         ELSE "Unknown error"

C12_Witness ==
  /\ wPc1 = "done"
  /\ wFirst.status = 404
  /\ wFirst.body = "RemoteException"
  /\ wEvents[1].arg = "File not found"
  /\ wStream # NoStream

\* C13: a first response with status 301 or 307 and no Location header makes
\* the session (upload or download) emit an error, and no second request is
\* issued.
C13_RedirectWithoutLocationIsError ==
  /\ (wPc1 = "done" /\ wFirst.kind = "res" /\ wFirst.status \in {301, 307}
      /\ wFirst.location = NoLocation) =>
       (Len(wUpload) = 0 /\ Count(wEvents, "error") = 1)
  /\ (rPc1 = "complete" /\ rRes1.kind = "res" /\ rRes1.status \in {301, 307}
      /\ rRes1.location = NoLocation) =>
       (Len(rDownload) = 0 /\ Count(rEvents, "error") = 1)

\* C14: in a download, a completed response with a remote-error status (the
\* first or the second one) has given no 'data' event for its body and exactly
\* one 'error' event, whatever the number of chunks of the body.
C14_RemoteErrorOneErrorNoData ==
  /\ (rPc1 = "complete" /\ rRes1.status \in {400, 401, 402, 403, 404, 500}) =>
       /\ Count(rEvents, "error") = 1
       /\ \A i \in DOMAIN rEvents :
            ~(rEvents[i].type = "data" /\ rEvents[i].from = "req")
  /\ (rPc2 = "complete" /\ rRes2.status \in {400, 401, 402, 403, 404, 500}) =>
       /\ Count(rEvents, "error") = 1
       /\ \A i \in DOMAIN rEvents :
            ~(rEvents[i].type = "data" /\ rEvents[i].from = "download")

\* C15: a download session emits 'finish' at most once.
C15_FinishAtMostOnce == Count(rEvents, "finish") <= 1

\* C16: in a download that follows a redirect to a success response, every
\* chunk of the second request is relayed as 'data' when it arrives, and none
\* of them after a 'finish' of the session.
C16_RelayedBeforeFinish ==
  (Len(rDownload) = 1 /\ rRes2.kind = "res" /\ rRes2.status \in {200, 201}) =>
    /\ Cardinality({i \in DOMAIN rEvents :
                      rEvents[i].type = "data" /\ rEvents[i].from = "download"})
         = rChunks2
    /\ \A i, j \in DOMAIN rEvents :
         (i < j /\ rEvents[i].type = "finish") =>
           ~(rEvents[j].type = "data" /\ rEvents[j].from = "download")

\* C17: in a download, a transport failure of the first or of the second
\* request leads to an 'error' event of the session.
C17_TransportFailureIsError ==
  (rPc1 = "failed" \/ rPc2 = "failed") => Count(rEvents, "error") >= 1

\* C19: for one metadata operation _sendRequest issues one request, never a
\* second one, and invokes its callback exactly once: with the transport error
\* if transport failed; with the parsed remote exception ('Unknown error'
\* without an envelope) on a remote-error status; with no error and the body
\* on 200/201; with an 'Unexpected redirect' error on a redirect status.  The
\* error is non-null exactly when transport failed or the status is not
\* 200/201.
C19_OneRequestOneCallback ==
  /\ Len(mRequests) <= 1
  /\ mPc = "pending" => (Len(mRequests) = 1 /\ Len(mSend) = 0)
  /\ mPc = "done" =>
       /\ Len(mRequests) = 1
       /\ mRequests[1].method = "GET"
       /\ Len(mSend) = 1
       /\ mOutcome.kind = "err" => mSend[1].err = "ECONNRESET"
       /\ (mOutcome.kind = "res"
           /\ mOutcome.status \in {400, 401, 402, 403, 404, 500}) =>
             mSend[1].err = IF mOutcome.body = "RemoteException"
                            THEN "File not found" ELSE "Unknown error"
       /\ (mOutcome.kind = "res" /\ mOutcome.status \in {200, 201}) =>
             (mSend[1].err = "null" /\ mSend[1].body = mOutcome.body)
       /\ (mOutcome.kind = "res" /\ mOutcome.status \in {301, 307}) =>
             mSend[1].err = "Unexpected redirect"
       /\ mSend[1].err # "null" <=>
             (mOutcome.kind = "err" \/ mOutcome.status \notin {200, 201})

C19_Witness ==
  /\ mPc = "done"
  /\ mOutcome.status = 201
  /\ mOutcome.body = "FileStatus"
  /\ mSend[1].err = "null"
  /\ mSend[1].body = "FileStatus"

\* C20: exists never raises, whatever its path argument; once stat has its
\* result it delivers to its callback, once, true if stat returned a FileStatus
\* structure and false if stat returned an error or no status.
C20_ExistsNeverRaises ==
  mOp = "exists" =>
    /\ mPc # "thrown"
    /\ mPc = "done" =>
         /\ Len(mExists) = 1
         /\ mExists[1] = (mStat[1].err = "null" /\ mStat[1].stats = "FileStatus")

\* C18: round trip.  Against the redirecting, storing and serving service,
\* when readFile, called after writeFile has called back, calls back itself,
\* it delivers no error and exactly the bytes handed to writeFile.
C18_RoundTrip ==
  (session = "download" /\ readFileCallback(rEvents).called) =>
    /\ readFileCallback(rEvents).err = "null"
    /\ readFileCallback(rEvents).data = [i \in 1..Content |-> "byte"]

\* value of a property of an object, NoValue if it has none
Lookup(obj, name) ==
  IF \E i \in DOMAIN obj : obj[i].k = name
  THEN obj[CHOOSE i \in DOMAIN obj : obj[i].k = name].v
  ELSE NoValue

\* C21: for every operation, path and extra parameters, also when the extra
\* parameters have the keys 'op' or 'user.name', the URL returned by
\* _getOperationEndpoint is the client's base URL and the path followed by a
\* query string in which op is the operation name, user.name the client's
\* user, and every extra parameter has its value.
C21_QueryHasOpUserAndExtras ==
  \A i \in DOMAIN eCalls :
    /\ eCalls[i].url = "http://namenode:50070/webhdfs/v1" \o eCalls[i].path
                        \o "?" \o stringify(eCalls[i].query)
    /\ Lookup(eCalls[i].query, "op") = eCalls[i].operation
    /\ Lookup(eCalls[i].query, "user.name") = "hdfs"
    /\ \A j \in DOMAIN eCalls[i].params :
         Lookup(eCalls[i].query, eCalls[i].params[j].k) = eCalls[i].params[j].v

\* the events an upload session emits, by the outcomes of its own requests
OwnEvents(pc1, first, pc2, second) ==
  LET isFailure(o) == o.kind = "err" \/ o.status \in {400, 401, 402, 403, 404, 500}
      message(o) == IF o.kind = "err" THEN "ECONNRESET"
                    ELSE IF o.body = "RemoteException" THEN "File not found"
                    ELSE "Unknown error"
      failure(o) == <<[type |-> "error", arg |-> message(o), from |-> "session"],
                      [type |-> "finish", arg |-> "no-payload", from |-> "session"]>>
  IN IF pc1 = "done" /\ isFailure(first) THEN failure(first)
     ELSE IF pc2 = "done" /\ isFailure(second) THEN failure(second)
     ELSE IF pc2 = "done"
     THEN <<[type |-> "finish",
             arg |-> IF second.location # "no-location" THEN second.location
                     ELSE "no-payload",
             from |-> "session"]>>
     ELSE <<>>

\* C22: with a second upload session created on the same client and the
\* events of both sessions interleaved, each session's request URL is the
\* endpoint a client that made no earlier call builds from the session's own
\* path and options, its second request goes to the Location of its own first
\* response, and its error latch and emitted events are those its own
\* outcomes give.
C22_SessionsIndependent ==
  /\ session = "upload" =>
       /\ wReq.url = writeEndpoint(Client, "/f", wReq.method = "POST", NoParams).url
       /\ \A i \in DOMAIN wUpload : wUpload[i].url = wFirst.location
       /\ wEvents = OwnEvents(wPc1, wFirst, wPc2, wSecond)
       /\ errorEmitted <=> (Len(wEvents) = 2)
  /\ session = "download" =>
       /\ rParams.url = _getOperationEndpoint(Client, "OPEN", "/f", NoParams).url
       /\ \A i \in DOMAIN rDownload : rDownload[i] = rParams
  /\ pPc1 # "none" =>
       /\ pReq.url = writeEndpoint(Client, pArgs.path, pArgs.append, pArgs.opts).url
       /\ pReq.method = IF pArgs.append THEN "POST" ELSE "PUT"
       /\ \A i \in DOMAIN pUpload : pUpload[i].url = pFirst.location
       /\ pEvents = OwnEvents(pPc1, pFirst, pPc2, pSecond)
       /\ pErrorEmitted <=> (Len(pEvents) = 2)

C22_Witness ==
  /\ session = "upload"
  /\ wPc2 = "done"
  /\ pPc2 = "done"
  /\ pArgs.path = "/g"
  /\ pArgs.opts # NoParams
  /\ wUpload[1].url # pUpload[1].url
  /\ Len(wEvents) = 1
  /\ Len(pEvents) = 2

\* C23: concat accepts a sources argument that is a string or a list of
\* strings, issuing one request for it, and rejects every value that is
\* neither with a validation error.
C23_ConcatAcceptsStringOrList ==
  (mOp = "concat" /\ mPc # "idle") =>
    /\ (mSources.type = "array"
        \/ (mSources.type = "string" /\ mSources.items # <<"">>)) =>
          (mPc # "thrown" /\ Len(mRequests) = 1)
    /\ mSources.type \notin {"string", "array"} =>
          (mPc = "thrown" /\ Len(mRequests) = 0)

\* C24: readFile's callback receives an error whenever the download has
\* failed (a completed response with a remote-error status, first or second,
\* with or without body), and when it receives no error it receives all
\* payload chunks of the transfer: none is relayed after the callback.
C24_ReadFileErrorOrAllChunks ==
  session = "download" =>
    /\ ((rPc1 = "complete" /\ rRes1.status \in {400, 401, 402, 403, 404, 500})
        \/ (rPc2 = "complete" /\ rRes2.status \in {400, 401, 402, 403, 404, 500})) =>
          (readFileCallback(rEvents).called /\ readFileCallback(rEvents).err # "null")
    /\ (readFileCallback(rEvents).called /\ readFileCallback(rEvents).err = "null") =>
          readFileCallback(rEvents).data = concatChunks(rEvents)

\* C25: when every request of an upload started by writeFile has its outcome,
\* writeFile's callback has been invoked: with the session's error if the
\* first or the second request failed, with null if the second response was a
\* success.
C25_WriteFileCallbackOnOutcome ==
  (session = "upload" /\ wStream # NoStream /\ ~wThrown
   /\ wPc1 = "done" /\ (Len(wUpload) >= 1 => wPc2 = "done")) =>
    /\ writeFileCallback(wEvents).called
    /\ (wFirst.kind = "err" \/ wFirst.status \in {400, 401, 402, 403, 404, 500}
        \/ (wPc2 = "done"
            /\ (wSecond.kind = "err"
                \/ wSecond.status \in {400, 401, 402, 403, 404, 500}))) =>
          writeFileCallback(wEvents).err # "null"
    /\ (wPc2 = "done" /\ wSecond.kind = "res" /\ wSecond.status \in {200, 201}) =>
          writeFileCallback(wEvents).err = "null"

\* C26: whenever the redirect response of the first request of an upload is
\* handled, a byte source has been attached before: the redirect handler
\* never runs with stream = null.
C26_SourceAttachedAtRedirect ==
  (wPc1 = "done" /\ FirstRedirected) => (wStream # NoStream /\ ~wThrown)

====
